---- MODULE Spec2Model ----
(***************************************************************************)
(* Repository index and diagram passes of impactanalysis.                  *)
(*                                                                         *)
(* Python values are modelled as follows.                                  *)
(*   str   a tuple of one-character strings (so that startswith, "in" and  *)
(*         concatenation are computed); "" is << >>                        *)
(*   int   an integer                                                      *)
(*   list  a tuple                                                         *)
(*   dict  [keys |-> insertion order of the keys, at |-> key -> value];    *)
(*         dictionary keys (file paths, field names) are TLA+ strings      *)
(***************************************************************************)
EXTENDS Integers, Sequences, FiniteSets, TLC

VARIABLES
    repo,        \* the scanned directory: file path -> content of the file
    disk,        \* content of code_index/index.json ("missing" or a token list)
    main_pc,     \* position of the caller between the passes
    run,         \* number of the current call of scan_directory_incremental
    index_data,  \* the dict shared by the extraction tasks
    index0,      \* value of index_data right after load_from_file (history)
    task,        \* file path -> state of its parse_java_file task
    collected,   \* futures already yielded by as_completed
    errors,      \* the errors list of scan_directory_incremental
    faults,      \* number of exceptions raised by tasks so far
    graph,       \* result of the last class diagram pass
    outcome,     \* view -> what its generator did
    sequence_diagram,  \* result of the last sequence diagram pass
    component_diagram  \* result of the last component diagram pass

vars == <<repo, disk, main_pc, run, index_data, index0, task, collected, errors, faults, graph,
          outcome, sequence_diagram, component_diagram>>

----------------------------------------------------------------------------
(* Bounds of the model *)

MaxRuns == 2

MaxBroken == 1

MaxFaults == 1

MaxRenderFaults == 1

MaxPairs == 32
\* pairs in the relationship sets the edge loops are run on
MaxRelations == 2

----------------------------------------------------------------------------
(* str *)

StartsWith(s, p) == Len(p) <= Len(s) /\ SubSeq(s, 1, Len(p)) = p

EndsWith(s, p) == Len(p) <= Len(s) /\ SubSeq(s, Len(s) - Len(p) + 1, Len(s)) = p

HasDot(s) == \E i \in 1..Len(s) : s[i] = "."

RECURSIVE Join(_, _)
Join(sep, parts) ==
    IF parts = << >> THEN << >>
    ELSE IF Len(parts) = 1 THEN parts[1]
    ELSE parts[1] \o sep \o Join(sep, Tail(parts))

RECURSIVE Flatten(_)
Flatten(ss) == IF ss = << >> THEN << >> ELSE ss[1] \o Flatten(Tail(ss))

----------------------------------------------------------------------------
(* dict *)

EmptyDict == [keys |-> << >>, at |-> << >>]

Has(d, k) == k \in DOMAIN d.at

DictSet(d, k, v) ==
    IF Has(d, k) THEN [d EXCEPT !.at[k] = v]
    ELSE [keys |-> Append(d.keys, k), at |-> d.at @@ (k :> v)]

\* a test "if index_data is None" in the place of "if not index_data"
TruthyUnlessNone(d) == TRUE

Truthy(d) == d.keys # << >>

----------------------------------------------------------------------------
(* json: the text of a file is the list of its tokens *)

TStr(s) == [t |-> "string", s |-> s]
TNum(n) == [t |-> "number", n |-> n]
LBrace == [t |-> "{"]
RBrace == [t |-> "}"]
LBracket == [t |-> "["]
RBracket == [t |-> "]"]
Colon == [t |-> ":"]
Comma == [t |-> ","]

EncStr(s) == <<TStr(s)>>

EncInt(n) == <<TNum(n)>>

\* items: the encodings of the elements of a list
EncList(items) == <<LBracket>> \o Join(<<Comma>>, items) \o <<RBracket>>

\* a dict is written in the insertion order of its keys; enc[k] is the
\* encoding of the value of key k
EncDict(d, enc) ==
    <<LBrace>>
    \o Join(<<Comma>>, [i \in 1..Len(d.keys) |-> <<TStr(d.keys[i]), Colon>> \o enc[d.keys[i]]])
    \o <<RBrace>>

EncStrList(l) == EncList([i \in 1..Len(l) |-> EncStr(l[i])])

EncMethod(m) == EncDict(m, [k \in DOMAIN m.at |-> EncStr(m.at[k])])

\* a writer that keeps the str fields of a call only
EncCallStrOnly(c) ==
    EncDict([keys |-> SelectSeq(c.keys, LAMBDA k : k # "sequence"), at |-> c.at],
            [k \in DOMAIN c.at |-> EncStr(c.at[k])])

EncCall(c) ==
    EncDict(c, [k \in DOMAIN c.at |->
                  IF k = "sequence" THEN EncInt(c.at[k]) ELSE EncStr(c.at[k])])

EncEntry(e) ==
    EncDict(e, [k \in DOMAIN e.at |->
        CASE k = "package" -> EncStr(e.at[k])
          [] k = "methods" -> EncList([i \in 1..Len(e.at[k]) |-> EncMethod(e.at[k][i])])
          [] k = "call_graph" -> EncList([i \in 1..Len(e.at[k]) |-> EncCall(e.at[k][i])])
          [] OTHER -> EncStrList(e.at[k])])

\* json.dump of an index: path -> entry
JsonDump(data) == EncDict(data, [k \in DOMAIN data.at |-> EncEntry(data.at[k])])

DecFail == [ok |-> FALSE, val |-> << >>, pos |-> 0]

DecOk(v, p) == [ok |-> TRUE, val |-> v, pos |-> p]

Tok(toks, i) == IF i <= Len(toks) THEN toks[i].t ELSE "eof"

RECURSIVE DecValue(_, _)
RECURSIVE DecElements(_, _, _)
RECURSIVE DecMembers(_, _, _)

DecValue(toks, i) ==
    CASE Tok(toks, i) = "string" -> DecOk(toks[i].s, i + 1)
      [] Tok(toks, i) = "number" -> DecOk(toks[i].n, i + 1)
      [] Tok(toks, i) = "[" ->
            IF Tok(toks, i + 1) = "]" THEN DecOk(<< >>, i + 2)
            ELSE DecElements(toks, i + 1, << >>)
      [] Tok(toks, i) = "{" ->
            IF Tok(toks, i + 1) = "}" THEN DecOk(EmptyDict, i + 2)
            ELSE DecMembers(toks, i + 1, EmptyDict)
      [] OTHER -> DecFail

DecElements(toks, i, acc) ==
    LET r == DecValue(toks, i) IN
    IF ~r.ok THEN DecFail
    ELSE IF Tok(toks, r.pos) = "," THEN DecElements(toks, r.pos + 1, Append(acc, r.val))
    ELSE IF Tok(toks, r.pos) = "]" THEN DecOk(Append(acc, r.val), r.pos + 1)
    ELSE DecFail

DecMembers(toks, i, acc) ==
    IF Tok(toks, i) # "string" \/ Tok(toks, i + 1) # ":" THEN DecFail
    ELSE LET r == DecValue(toks, i + 2) IN
         IF ~r.ok THEN DecFail
         ELSE IF Tok(toks, r.pos) = ","
              THEN DecMembers(toks, r.pos + 1, DictSet(acc, toks[i].s, r.val))
         ELSE IF Tok(toks, r.pos) = "}"
              THEN DecOk(DictSet(acc, toks[i].s, r.val), r.pos + 1)
         ELSE DecFail

\* json.load: ok = FALSE stands for JSONDecodeError
JsonLoad(toks) ==
    LET r == DecValue(toks, 1) IN
    IF r.ok /\ r.pos = Len(toks) + 1 THEN r ELSE DecFail

----------------------------------------------------------------------------
(* utils/config_utils.py *)

\* load_from_file without the except clauses: JSONDecodeError leaves the function
load_from_file_uncaught(file) ==
    IF ~file.exists
    THEN [data |-> EmptyDict, file |-> [exists |-> TRUE, text |-> <<LBrace, RBrace>>],
          raised |-> FALSE]
    ELSE LET r == JsonLoad(file.text) IN
         [data |-> IF r.ok THEN r.val ELSE EmptyDict, file |-> file, raised |-> ~r.ok]

\* result of load_from_file, lines 17-35: the value returned, the file
\* afterwards, and whether an exception leaves the function (every failure of
\* json.load is caught and gives {})
load_from_file(file) ==
    IF ~file.exists
    THEN [data |-> EmptyDict, file |-> [exists |-> TRUE, text |-> <<LBrace, RBrace>>],
          raised |-> FALSE]
    ELSE LET r == JsonLoad(file.text) IN
         [data |-> IF r.ok THEN r.val ELSE EmptyDict, file |-> file, raised |-> FALSE]

\* the file written by save_to_file
save_to_file(data) == [exists |-> TRUE, text |-> JsonDump(data)]

----------------------------------------------------------------------------
(* Java sources, as javalang parses them.                                  *)
(* A file: [parses, package, imports, types]; package << >> when the file  *)
(* has no package declaration.  A type declaration: [kind, name, extends,  *)
(* implements, fields, methods]; a field: [name, type, final]; a method:   *)
(* [name, params, return_type, calls] with return_type the str() of the    *)
(* node, << >> for void; a call: [qualifier, member].                      *)

Str_javadot == <<"j", "a", "v", "a", ".">>

NoSuper == << >>

TypeDecl(kind, name, extends, implements, fields, methods) ==
    [kind |-> kind, name |-> name, extends |-> extends, implements |-> implements,
     fields |-> fields, methods |-> methods]

Field(name, type, final) == [name |-> name, type |-> type, final |-> final]

Method(name, params, return_type, calls) ==
    [name |-> name, params |-> params, return_type |-> return_type, calls |-> calls]

Call(qualifier, member) == [qualifier |-> qualifier, member |-> member]

Source(package, imports, types) ==
    [parses |-> TRUE, package |-> package, imports |-> imports, types |-> types]

\* a file javalang.parse.parse rejects
Unparsable == [parses |-> FALSE, package |-> << >>, imports |-> << >>, types |-> << >>]

\* interface Flag {}  class Base { void run() {} }
BaseJava ==
    Source(<< >>, << >>,
      << TypeDecl("interface", <<"F", "l", "a", "g">>, NoSuper, << >>, << >>, << >>),
         TypeDecl("class", <<"B", "a", "s", "e">>, NoSuper, << >>, << >>,
           << Method(<<"r", "u", "n">>, << >>, << >>, << >>) >>) >>)

\* class Derived extends Base implements Flag { void go() { run(); } }
DerivedJava ==
    Source(<< >>, << >>,
      << TypeDecl("class", <<"D", "e", "r", "i", "v", "e", "d">>, <<"B", "a", "s", "e">>, << <<"F", "l", "a", "g">> >>, << >>,
           << Method(<<"g", "o">>, << >>, << >>, << Call(<< >>, <<"r", "u", "n">>) >>) >>) >>)

\* package app; import java.util.List; import lib.Tool;
\* class Order { Customer customer; final OrderId id; List<Item> items;
\*               void place(int n) { customer.notify(); save(); } }
OrderJava ==
    Source(<<"a", "p", "p">>, << <<"j", "a", "v", "a", ".", "u", "t", "i", "l", ".", "L", "i", "s", "t">>, <<"l", "i", "b", ".", "T", "o", "o", "l">> >>,
      << TypeDecl("class", <<"O", "r", "d", "e", "r">>, NoSuper, << >>,
           << Field(<<"c", "u", "s", "t", "o", "m", "e", "r">>, <<"C", "u", "s", "t", "o", "m", "e", "r">>, FALSE),
              Field(<<"i", "d">>, <<"O", "r", "d", "e", "r", "I", "d">>, TRUE),
              Field(<<"i", "t", "e", "m", "s">>, <<"L", "i", "s", "t", "<", "I", "t", "e", "m", ">">>, FALSE) >>,
           << Method(<<"p", "l", "a", "c", "e">>, << <<"i", "n", "t">> >>, << >>,
                << Call(<<"c", "u", "s", "t", "o", "m", "e", "r">>, <<"n", "o", "t", "i", "f", "y">>), Call(<< >>, <<"s", "a", "v", "e">>) >>) >>) >>)

\* package app; class Customer {}
CustomerJava ==
    Source(<<"a", "p", "p">>, << >>, << TypeDecl("class", <<"C", "u", "s", "t", "o", "m", "e", "r">>, NoSuper, << >>, << >>, << >>) >>)

\* class A { A x; }
AJava ==
    Source(<< >>, << >>,
      << TypeDecl("class", <<"A">>, NoSuper, << >>, << Field(<<"x">>, <<"A">>, FALSE) >>, << >>) >>)

\* package svc;
\* class Service {
\*   void process() { helper.compute(); helper.finish(); opt.ifPresent();
\*                    repo.save(); java.util.Objects.hash(); check(); }
\*   void create() { audit.record(); } }
ServiceJava ==
    Source(<<"s", "v", "c">>, << >>,
      << TypeDecl("class", <<"S", "e", "r", "v", "i", "c", "e">>, NoSuper, << >>, << >>,
           << Method(<<"p", "r", "o", "c", "e", "s", "s">>, << >>, << >>,
                << Call(<<"h", "e", "l", "p", "e", "r">>, <<"c", "o", "m", "p", "u", "t", "e">>), Call(<<"h", "e", "l", "p", "e", "r">>, <<"f", "i", "n", "i", "s", "h">>),
                   Call(<<"o", "p", "t">>, <<"i", "f", "P", "r", "e", "s", "e", "n", "t">>), Call(<<"r", "e", "p", "o">>, <<"s", "a", "v", "e">>),
                   Call(<<"j", "a", "v", "a", ".", "u", "t", "i", "l", ".", "O", "b", "j", "e", "c", "t", "s">>, <<"h", "a", "s", "h">>), Call(<< >>, <<"c", "h", "e", "c", "k">>) >>),
              Method(<<"c", "r", "e", "a", "t", "e">>, << >>, << >>, << Call(<<"a", "u", "d", "i", "t">>, <<"r", "e", "c", "o", "r", "d">>) >>) >>) >>)

\* import lib.Tool;  class Main {}
MainJava ==
    Source(<< >>, << <<"l", "i", "b", ".", "T", "o", "o", "l">> >>,
      << TypeDecl("class", <<"M", "a", "i", "n">>, NoSuper, << >>, << >>, << >>) >>)

\* package lib; import Helper; import lib.Tool; import junit.Rule;
\* class Tool {}  class Helper {}
ToolJava ==
    Source(<<"l", "i", "b">>, << <<"H", "e", "l", "p", "e", "r">>, <<"l", "i", "b", ".", "T", "o", "o", "l">>, <<"j", "u", "n", "i", "t", ".", "R", "u", "l", "e">> >>,
      << TypeDecl("class", <<"T", "o", "o", "l">>, NoSuper, << >>, << >>, << >>),
         TypeDecl("class", <<"H", "e", "l", "p", "e", "r">>, NoSuper, << >>, << >>, << >>) >>)

\* package junit; class Rule {}
RuleJava ==
    Source(<<"j", "u", "n", "i", "t">>, << >>, << TypeDecl("class", <<"R", "u", "l", "e">>, NoSuper, << >>, << >>, << >>) >>)

\* the directories scan_directory_incremental is run on; the last one holds no
\* Java file
Repos ==
    { ("Base.java" :> BaseJava) @@ ("Derived.java" :> DerivedJava),
      ("Order.java" :> OrderJava) @@ ("Customer.java" :> CustomerJava),
      ("A.java" :> AJava) @@ ("Base.java" :> BaseJava) @@ ("Order.java" :> OrderJava),
      ("Service.java" :> ServiceJava),
      ("Tool.java" :> ToolJava) @@ ("Rule.java" :> RuleJava),
      ("Main.java" :> MainJava) @@ ("Tool.java" :> ToolJava),
      << >> }

\* os.path.basename(file_path).replace(".java", "")
Basename(file_path) ==
    CASE file_path = "Base.java" -> <<"B", "a", "s", "e">>
      [] file_path = "Derived.java" -> <<"D", "e", "r", "i", "v", "e", "d">>
      [] file_path = "Order.java" -> <<"O", "r", "d", "e", "r">>
      [] file_path = "Customer.java" -> <<"C", "u", "s", "t", "o", "m", "e", "r">>
      [] file_path = "A.java" -> <<"A">>
      [] file_path = "Service.java" -> <<"S", "e", "r", "v", "i", "c", "e">>
      [] file_path = "Main.java" -> <<"M", "a", "i", "n">>
      [] file_path = "Tool.java" -> <<"T", "o", "o", "l">>
      [] file_path = "Rule.java" -> <<"R", "u", "l", "e">>

----------------------------------------------------------------------------
(* utils/parse_java.py *)

NewEntry ==
    [keys |-> <<"classes", "methods", "dependencies", "call_graph", "package">>,
     at |-> [classes |-> << >>, methods |-> << >>, dependencies |-> << >>,
             call_graph |-> << >>, package |-> << >>]]

\* lines 30-33: the entry of the file is created when absent; parsed_data is
\* that entry itself, not a copy
EnterEntry(data, file_path) ==
    IF ~Has(data, file_path) THEN DictSet(data, file_path, NewEntry) ELSE data

\* parsed_data[key] = value
EntrySet(data, file_path, key, value) ==
    [data EXCEPT !.at[file_path] = DictSet(@, key, value)]

\* entries that were all created from one dict: what a task appends to the
\* list of its entry is appended to the list of every entry
EntryExtendShared(data, file_path, key, items) ==
    [data EXCEPT !.at = [p \in DOMAIN data.at |-> [data.at[p] EXCEPT !.at[key] = @ \o items]]]

\* parsed_data[key].append(x) for every x of items
EntryExtend(data, file_path, key, items) ==
    [data EXCEPT !.at[file_path].at[key] = @ \o items]

\* lines 35-39
ExtractPackage(data, file_path, tree) ==
    IF tree.package # << >> THEN EntrySet(data, file_path, "package", tree.package)
    ELSE data

ClassDeclarations(tree) == SelectSeq(tree.types, LAMBDA d : d.kind = "class")

\* lines 54-59
MethodInfo(node, parent_class) ==
    [keys |-> <<"name", "class", "signature", "return_type">>,
     at |-> [name |-> node.name,
             class |-> parent_class,
             signature |-> node.name \o <<"(">> \o Join(<<",", " ">>, node.params) \o <<")">>,
             return_type |-> IF node.return_type # << >> THEN node.return_type
                             ELSE <<"v", "o", "i", "d">>]]

MethodInfos(tree) ==
    Flatten([i \in 1..Len(ClassDeclarations(tree)) |->
        LET c == ClassDeclarations(tree)[i] IN
        [j \in 1..Len(c.methods) |-> MethodInfo(c.methods[j], c.name)]])

\* lines 41-60
ExtractClasses(data, file_path, tree) ==
    EntryExtend(
        EntryExtend(data, file_path, "classes",
                    [i \in 1..Len(ClassDeclarations(tree)) |-> ClassDeclarations(tree)[i].name]),
        file_path, "methods", MethodInfos(tree))

\* lines 64-68
Imports(tree) == SelectSeq(tree.imports, LAMBDA full_import : ~StartsWith(full_import, Str_javadot))

\* lines 70-94: a call without its sequence number
Invocation(file_path, decl, method, node) ==
    LET caller_class == IF decl.kind = "class" THEN decl.name ELSE Basename(file_path) IN
    [caller_class |-> caller_class,
     caller_method |-> method.name,
     callee_class |-> IF node.qualifier # << >> THEN node.qualifier ELSE caller_class,
     callee_method |-> node.member]

\* the method invocations of a file in the order the tree yields them
Invocations(file_path, tree) ==
    Flatten([i \in 1..Len(tree.types) |->
        Flatten([j \in 1..Len(tree.types[i].methods) |->
            [k \in 1..Len(tree.types[i].methods[j].calls) |->
                Invocation(file_path, tree.types[i], tree.types[i].methods[j],
                           tree.types[i].methods[j].calls[k])]])])

\* lines 96-102
CallInfo(inv, sequence) ==
    [keys |-> <<"caller_class", "caller_method", "callee_class", "callee_method", "sequence">>,
     at |-> [caller_class |-> inv.caller_class, caller_method |-> inv.caller_method,
             callee_class |-> inv.callee_class, callee_method |-> inv.callee_method,
             sequence |-> sequence]]

\* a numbering that starts again at 1 every time the file is parsed
CallInfosFromOne(call_graph, invs) ==
    [i \in 1..Len(invs) |-> CallInfo(invs[i], i)]

\* lines 96-104: each call is numbered len(call_graph) + 1 as it is appended
CallInfos(call_graph, invs) ==
    [i \in 1..Len(invs) |-> CallInfo(invs[i], Len(call_graph) + i)]

\* lines 62-106
ExtractCalls(data, file_path, tree) ==
    LET deps == EntryExtend(data, file_path, "dependencies", Imports(tree))
        done == EntryExtend(deps, file_path, "call_graph",
                    CallInfos(deps.at[file_path].at.call_graph, Invocations(file_path, tree)))
    IN  DictSet(done, file_path, done.at[file_path])

\* parse_java_file run alone, from line 29 to line 106
Extract(data, file_path, tree) ==
    ExtractCalls(
        ExtractClasses(
            ExtractPackage(EnterEntry(data, file_path), file_path, tree),
            file_path, tree),
        file_path, tree)

----------------------------------------------------------------------------
(* diagrams/generate_class_diagram.py *)

\* lines 65-69
excluded_patterns ==
    << <<"j", "a", "v", "a", ".">>, <<"j", "a", "v", "a", "x", ".">>, <<"o", "r", "g", ".", "s", "p", "r", "i", "n", "g", "f", "r", "a", "m", "e", "w", "o", "r", "k">>, <<"j", "u", "n", "i", "t">>, <<"o", "r", "g", ".", "j", "u", "n", "i", "t">>, <<"o", "r", "g", ".", "a", "s", "s", "e", "r", "t", "j">>,
       <<"o", "r", "g", ".", "m", "o", "c", "k", "i", "t", "o">>, <<"o", "r", "g", ".", "s", "l", "f", "4", "j">>, <<"l", "o", "m", "b", "o", "k">>, <<"a", "n", "d", "r", "o", "i", "d", ".">>, <<"c", "o", "m", ".", "g", "o", "o", "g", "l", "e", ".", "c", "o", "m", "m", "o", "n">> >>

\* any(name.startswith(pattern) for pattern in excluded_patterns)
Excluded(name) ==
    \E i \in 1..Len(excluded_patterns) : StartsWith(name, excluded_patterns[i])

\* d.get(key, default)
Get(d, key, default) == IF Has(d, key) THEN d.at[key] ELSE default

\* lines 83-86
FullClassName(package_name, class_name) ==
    IF package_name # << >> THEN package_name \o <<".">> \o class_name ELSE class_name

\* "if '.' not in name and package_name: name = package_name.name"
Qualify(name, package_name) ==
    IF ~HasDot(name) /\ package_name # << >> THEN package_name \o <<".">> \o name ELSE name

\* the (package, class) pairs in the order the two passes visit them
ClassOccurrences(data) ==
    Flatten([i \in 1..Len(data.keys) |->
        LET entry == data.at[data.keys[i]] IN
        [j \in 1..Len(Get(entry, "classes", << >>)) |->
            [package_name |-> Get(entry, "package", << >>),
             class_name |-> Get(entry, "classes", << >>)[j]]]])

\* a pass that takes the name of the class itself for the name of its parent
ParentClassSelf(class_info) == class_info

\* a pass that gives every class the interface list << Base >>
InterfacesStale(class_info) == << <<"B", "a", "s", "e">> >>

\* lines 96-99, 204, 213, 242, 243, 284: what the pass knows of a class.  The
\* index holds class names only, and the pass fills the rest with constants.
Attributes(class_info) == << >>
Methods(class_info) == << >>
IsInterface(class_info) == FALSE
IsAbstract(class_info) == FALSE
ParentClass(class_info) == << >>
Interfaces(class_info) == << >>
AttrType(attr) == <<"S", "t", "r", "i", "n", "g">>
IsFinal(attr) == FALSE

\* lines 101-172: the parts of the label of a class node
LabelParts(class_name, attributes, methods, is_interface, is_abstract) ==
    << IF is_interface THEN <<"<<interface>>">> \o class_name
       ELSE IF is_abstract THEN <<"<<abstract>>">> \o class_name
       ELSE class_name >>
    \o << <<"sep">> >>
    \o [i \in 1..(IF Len(attributes) > 7 THEN 7 ELSE Len(attributes)) |->
            <<"+", " ">> \o attributes[i] \o <<":", " ">> \o <<"S", "t", "r", "i", "n", "g">>]
    \o (IF Len(attributes) > 7 THEN << <<"...">> >> ELSE << >>)
    \o << <<"sep">> >>
    \o [i \in 1..(IF Len(methods) > 10 THEN 10 ELSE Len(methods)) |->
            <<"+", " ">> \o methods[i] \o <<"(", ")", ":", " ">> \o <<"v", "o", "i", "d">>]
    \o (IF Len(methods) > 10 THEN << <<"...">> >> ELSE << >>)

\* lines 203-218: the inheritance pairs of one class
InheritanceOf(full_class_name, package_name, parent_class, interfaces) ==
    (IF parent_class # << >> /\ parent_class \notin {<<"O", "b", "j", "e", "c", "t">>, <<"j", "a", "v", "a", ".", "l", "a", "n", "g", ".", "O", "b", "j", "e", "c", "t">>}
     THEN {<<full_class_name, Qualify(parent_class, package_name)>>}
     ELSE {})
    \cup {<<full_class_name, Qualify(interfaces[i], package_name)>> : i \in 1..Len(interfaces)}

\* a first pass whose parent_class keeps the value the class before left in it
RECURSIVE FirstPassStale(_, _)
FirstPassStale(occs, acc) ==
    IF occs = << >> THEN acc
    ELSE LET class_name == occs[1].class_name
             package_name == occs[1].package_name
             full_class_name == FullClassName(package_name, class_name)
         IN  IF \/ class_name = << >>
                \/ full_class_name \in acc.processed_classes
                \/ Excluded(full_class_name)
             THEN FirstPassStale(Tail(occs), acc)
             ELSE FirstPassStale(Tail(occs),
                    [processed_classes |-> acc.processed_classes \cup {full_class_name},
                     nodes |-> Append(acc.nodes,
                                 [id |-> full_class_name,
                                  label |-> LabelParts(class_name, Attributes(class_name),
                                               Methods(class_name), IsInterface(class_name),
                                               IsAbstract(class_name))]),
                     inheritance |-> acc.inheritance
                        \cup (IF acc.nodes = << >> THEN {}
                              ELSE {<<full_class_name, acc.nodes[Len(acc.nodes)].id>>})])

\* a first pass that does not look the name up in processed_classes
RECURSIVE FirstPassRepeated(_, _)
FirstPassRepeated(occs, acc) ==
    IF occs = << >> THEN acc
    ELSE LET class_name == occs[1].class_name
             package_name == occs[1].package_name
             full_class_name == FullClassName(package_name, class_name)
         IN  IF \/ class_name = << >>
                \/ Excluded(full_class_name)
             THEN FirstPassRepeated(Tail(occs), acc)
             ELSE FirstPassRepeated(Tail(occs),
                    [processed_classes |-> acc.processed_classes \cup {full_class_name},
                     nodes |-> Append(acc.nodes,
                                 [id |-> full_class_name,
                                  label |-> LabelParts(class_name, Attributes(class_name),
                                               Methods(class_name), IsInterface(class_name),
                                               IsAbstract(class_name))]),
                     inheritance |-> acc.inheritance
                        \cup InheritanceOf(full_class_name, package_name,
                                           ParentClass(class_name), Interfaces(class_name))])

\* lines 72-218: the first pass over the class occurrences
RECURSIVE FirstPass(_, _)
FirstPass(occs, acc) ==
    IF occs = << >> THEN acc
    ELSE LET class_name == occs[1].class_name
             package_name == occs[1].package_name
             full_class_name == FullClassName(package_name, class_name)
         IN  IF \/ class_name = << >>
                \/ full_class_name \in acc.processed_classes
                \/ Excluded(full_class_name)
             THEN FirstPass(Tail(occs), acc)
             ELSE FirstPass(Tail(occs),
                    [processed_classes |-> acc.processed_classes \cup {full_class_name},
                     nodes |-> Append(acc.nodes,
                                 [id |-> full_class_name,
                                  label |-> LabelParts(class_name, Attributes(class_name),
                                               Methods(class_name), IsInterface(class_name),
                                               IsAbstract(class_name))]),
                     inheritance |-> acc.inheritance
                        \cup InheritanceOf(full_class_name, package_name,
                                           ParentClass(class_name), Interfaces(class_name))])

\* re.search(r'<([^>]+)>', s).group(1); << >> when there is no match
CollectionMatch(s) ==
    LET Close(i) == {j \in (i + 1)..Len(s) : s[j] = ">"}
        First(i) == CHOOSE j \in Close(i) : \A k \in Close(i) : j <= k
        Opens == {i \in 1..Len(s) : s[i] = "<" /\ Close(i) # {} /\ First(i) > i + 1}
    IN  IF Opens = {} THEN << >>
        ELSE LET i == CHOOSE o \in Opens : \A k \in Opens : o <= k
             IN  SubSeq(s, i + 1, First(i) - 1)

Edge(kind, source, target) == [kind |-> kind, source |-> source, target |-> target]

\* lines 243-293: the relationship one attribute of a class gives, if any
FieldRelation(full_class_name, package_name, declared_type, is_final) ==
    IF \/ declared_type = << >>
       \/ declared_type \in {<<"i", "n", "t">>, <<"l", "o", "n", "g">>, <<"b", "o", "o", "l", "e", "a", "n">>, <<"S", "t", "r", "i", "n", "g">>, <<"d", "o", "u", "b", "l", "e">>, <<"f", "l", "o", "a", "t">>}
       \/ Excluded(declared_type)
    THEN {}
    ELSE
    LET attr_type == Qualify(declared_type, package_name)
        is_collection == \/ StartsWith(attr_type, <<"L", "i", "s", "t", "<">>)
                         \/ StartsWith(attr_type, <<"S", "e", "t", "<">>)
                         \/ StartsWith(attr_type, <<"M", "a", "p", "<">>)
                         \/ StartsWith(attr_type, <<"C", "o", "l", "l", "e", "c", "t", "i", "o", "n", "<">>)
        collection_type == IF is_collection /\ CollectionMatch(attr_type) # << >>
                           THEN Qualify(CollectionMatch(attr_type), package_name)
                           ELSE << >>
        base_type == Qualify(SubSeq(attr_type, 1, Len(attr_type) - 2), package_name)
        boxed == {<<"S", "t", "r", "i", "n", "g">>, <<"I", "n", "t", "e", "g", "e", "r">>, <<"L", "o", "n", "g">>, <<"B", "o", "o", "l", "e", "a", "n">>}
    IN  IF is_collection /\ collection_type # << >>
        THEN IF full_class_name # collection_type /\ collection_type \notin boxed
             THEN {Edge("aggregation", full_class_name, collection_type)}
             ELSE {}
        ELSE IF EndsWith(attr_type, <<"[", "]">>)
        THEN IF full_class_name # base_type /\ base_type \notin boxed
             THEN {Edge("aggregation", full_class_name, base_type)}
             ELSE {}
        ELSE IF is_final
        THEN IF full_class_name # attr_type
             THEN {Edge("composition", full_class_name, attr_type)}
             ELSE {}
        ELSE IF full_class_name # attr_type
             THEN {Edge("association", full_class_name, attr_type)}
             ELSE {}

\* lines 221-293: the second pass over the class occurrences
SecondPass(occs) ==
    UNION { LET class_name == occs[i].class_name
                package_name == occs[i].package_name
                full_class_name == FullClassName(package_name, class_name)
            IN  IF class_name = << >> \/ Excluded(full_class_name) THEN {}
                ELSE UNION { FieldRelation(full_class_name, package_name,
                                           AttrType(Attributes(class_name)[a]),
                                           IsFinal(Attributes(class_name)[a]))
                             : a \in 1..Len(Attributes(class_name)) }
          : i \in 1..Len(occs) }

Pairs(edges, kind) == {<<e.source, e.target>> : e \in {x \in edges : x.kind = kind}}

\* lines 57-62 after the two passes
Relationships(data) ==
    [inheritance |-> FirstPass(ClassOccurrences(data),
                        [processed_classes |-> {}, nodes |-> << >>, inheritance |-> {}]).inheritance,
     composition |-> Pairs(SecondPass(ClassOccurrences(data)), "composition"),
     aggregation |-> Pairs(SecondPass(ClassOccurrences(data)), "aggregation"),
     association |-> Pairs(SecondPass(ClassOccurrences(data)), "association")]

\* a test that looks only the source up in processed_classes
DrawableSourceOnly(pairs, processed_classes) ==
    {e \in pairs : e[1] \in processed_classes}

\* "if source in processed_classes and target in processed_classes"
Drawable(pairs, processed_classes) ==
    {e \in pairs : e[1] \in processed_classes /\ e[2] \in processed_classes}

\* line 337
max_associations == 30

\* the sets that s becomes when k of its elements are left out
RECURSIVE Without(_, _)
Without(s, k) == IF k = 0 THEN {s} ELSE UNION {Without(s \ {x}, k - 1) : x \in s}

\* a loop that tests association_count > max_associations before it breaks
AssociationChoicesLate(pairs, processed_classes) ==
    LET drawable == Drawable(pairs, processed_classes) IN
    IF Cardinality(drawable) <= max_associations + 1 THEN {drawable}
    ELSE Without(drawable, Cardinality(drawable) - (max_associations + 1))

\* lines 339-353: the loop stops once max_associations edges are drawn; the
\* iteration order of a set of tuples of str is not fixed
AssociationChoices(pairs, processed_classes) ==
    LET drawable == Drawable(pairs, processed_classes) IN
    IF Cardinality(drawable) <= max_associations THEN {drawable}
    ELSE Without(drawable, Cardinality(drawable) - max_associations)

NoGraph ==
    [built |-> FALSE, processed_classes |-> {}, nodes |-> << >>,
     relationships |-> [inheritance |-> {}, composition |-> {}, aggregation |-> {},
                        association |-> {}],
     edges |-> [inheritance |-> {}, composition |-> {}, aggregation |-> {},
                association |-> {}]]

\* lines 32-377: the graph handed to write_png, for a choice of association edges
ClassGraph(data, association) ==
    LET first == FirstPass(ClassOccurrences(data),
                    [processed_classes |-> {}, nodes |-> << >>, inheritance |-> {}])
        relationships == Relationships(data)
    IN  [built |-> TRUE,
         processed_classes |-> first.processed_classes,
         nodes |-> first.nodes,
         relationships |-> relationships,
         edges |-> [inheritance |-> Drawable(relationships.inheritance, first.processed_classes),
                    composition |-> Drawable(relationships.composition, first.processed_classes),
                    aggregation |-> Drawable(relationships.aggregation, first.processed_classes),
                    association |-> association]]

----------------------------------------------------------------------------
(* diagrams/generate_diagrams.py: generate_sequence_diagram *)

UpperCase == <<"A", "B", "C", "D", "E", "F", "G", "H", "I", "J", "K", "L", "M", "N", "O", "P", "Q", "R", "S", "T", "U", "V", "W", "X", "Y", "Z">>

LowerCase == <<"a", "b", "c", "d", "e", "f", "g", "h", "i", "j", "k", "l", "m", "n", "o", "p", "q", "r", "s", "t", "u", "v", "w", "x", "y", "z">>

\* str.lower()
Lower(s) ==
    [i \in 1..Len(s) |->
        IF \E k \in 1..Len(UpperCase) : UpperCase[k] = s[i]
        THEN LowerCase[CHOOSE k \in 1..Len(UpperCase) : UpperCase[k] = s[i]]
        ELSE s[i]]

Digits == <<"0", "1", "2", "3", "4", "5", "6", "7", "8", "9">>

\* str(n) of an int that is not negative
RECURSIVE Str(_)
Str(n) ==
    IF n < 10 THEN <<Digits[n + 1]>>
    ELSE Str(n \div 10) \o <<Digits[(n % 10) + 1]>>

\* participant.split(".")[-1]
SimpleName(participant) ==
    LET dots == {i \in 1..Len(participant) : participant[i] = "."} IN
    IF dots = {} THEN participant
    ELSE SubSeq(participant, (CHOOSE i \in dots : \A j \in dots : j <= i) + 1, Len(participant))

\* lines 551-556
utility_methods ==
    { <<"s", "a", "v", "e">>, <<"p", "r", "i", "n", "t">>, <<"i", "f", "P", "r", "e", "s", "e", "n", "t">>, <<"o", "r", "E", "l", "s", "e">>, <<"f", "o", "r", "E", "a", "c", "h">>, <<"m", "a", "p">>,
      <<"e", "q", "u", "a", "l", "s">>, <<"t", "o", "S", "t", "r", "i", "n", "g">>, <<"h", "a", "s", "h", "C", "o", "d", "e">>, <<"g", "e", "t">>, <<"s", "e", "t">>, <<"i", "s">>,
      <<"b", "u", "i", "l", "d">>, <<"o", "f">>, <<"f", "r", "o", "m">>, <<"c", "l", "o", "n", "e">>, <<"c", "o", "m", "p", "a", "r", "e", "T", "o">>, <<"b", "u", "i", "l", "d", "e", "r">>,
      <<"a", "d", "d">>, <<"r", "e", "m", "o", "v", "e">>, <<"c", "l", "e", "a", "r">>, <<"p", "u", "t">>, <<"c", "r", "e", "a", "t", "e">>, <<"f", "i", "n", "d">> }

\* lines 564-565: the calls of the index in the order the first pass reads them
IndexCalls(data) ==
    Flatten([i \in 1..Len(data.keys) |-> Get(data.at[data.keys[i]], "call_graph", << >>)])

\* lines 566-569
CallFields(call) ==
    [caller_class |-> Get(call, "caller_class", << >>),
     callee_class |-> Get(call, "callee_class", << >>),
     caller_method |-> Get(call, "caller_method", << >>),
     callee_method |-> Get(call, "callee_method", << >>)]

\* a first pass that does not test the class of the callee against the
\* excluded patterns
SignificantAnyCallee(c) ==
    /\ c.caller_class # << >> /\ c.callee_class # << >>
    /\ c.caller_method # << >> /\ c.callee_method # << >>
    /\ ~Excluded(c.caller_class)
    /\ Lower(c.callee_method) \notin utility_methods
    /\ Lower(c.caller_method) \notin utility_methods
    /\ ~(/\ c.caller_class = c.callee_class
         /\ \/ StartsWith(c.callee_method, <<"g", "e", "t">>)
            \/ StartsWith(c.callee_method, <<"s", "e", "t">>)
            \/ StartsWith(c.callee_method, <<"i", "s">>)
            \/ c.callee_method \in utility_methods)

\* lines 571-586: the calls the first pass keeps
Significant(c) ==
    /\ c.caller_class # << >> /\ c.callee_class # << >>
    /\ c.caller_method # << >> /\ c.callee_method # << >>
    /\ ~Excluded(c.caller_class)
    /\ ~Excluded(c.callee_class)
    /\ Lower(c.callee_method) \notin utility_methods
    /\ Lower(c.caller_method) \notin utility_methods
    /\ ~(/\ c.caller_class = c.callee_class
         /\ \/ StartsWith(c.callee_method, <<"g", "e", "t">>)
            \/ StartsWith(c.callee_method, <<"s", "e", "t">>)
            \/ StartsWith(c.callee_method, <<"i", "s">>)
            \/ c.callee_method \in utility_methods)

\* lines 564-603: the calls kept, in the order they are read
SignificantCalls(data) ==
    SelectSeq([i \in 1..Len(IndexCalls(data)) |-> CallFields(IndexCalls(data)[i])], Significant)

\* lines 588-603: calls_by_relation, a list of calls for every relation
CallsByRelation(data) ==
    LET kept == SignificantCalls(data)
        relations == {<<kept[i].caller_class, kept[i].callee_class>> : i \in 1..Len(kept)}
    IN  [relation \in relations |->
            LET mine == SelectSeq(kept, LAMBDA c : <<c.caller_class, c.callee_class>> = relation)
            IN  [i \in 1..Len(mine) |->
                    [caller_method |-> mine[i].caller_method,
                     callee_method |-> mine[i].callee_method]]]

\* lines 631-638
EdgeLabel(calls) ==
    LET important_calls == SubSeq(calls, 1, IF Len(calls) < 3 THEN Len(calls) ELSE 3) IN
    IF Len(important_calls) = 1
    THEN important_calls[1].caller_method \o <<" ", "-", ">", " ">> \o important_calls[1].callee_method
    ELSE Str(Len(calls)) \o <<" ", "c", "a", "l", "l", "s">>

NoSequence ==
    [built |-> FALSE, participants |-> {}, nodes |-> {}, calls_by_relation |-> << >>,
     edges |-> {}]

\* a pass that adds the two classes of a call to the participants only when
\* they differ
SequenceGraphEndpointsOnly(data) ==
    LET calls_by_relation == CallsByRelation(data)
        participants == UNION {{relation[1], relation[2]} :
                                  relation \in {r \in DOMAIN calls_by_relation : r[1] # r[2]}}
    IN  [built |-> TRUE,
         participants |-> participants,
         nodes |-> {[id |-> p, label |-> SimpleName(p)] : p \in participants},
         calls_by_relation |-> calls_by_relation,
         edges |-> {[caller |-> relation[1], callee |-> relation[2],
                     label |-> EdgeLabel(calls_by_relation[relation])]
                    : relation \in {r \in DOMAIN calls_by_relation : r[1] # r[2]}}]

\* lines 528-652: the graph handed to write_png; the nodes are added in the
\* order of sorted(participants), which the set below does not keep
SequenceGraph(data) ==
    LET calls_by_relation == CallsByRelation(data)
        participants == UNION {{relation[1], relation[2]} : relation \in DOMAIN calls_by_relation}
    IN  [built |-> TRUE,
         participants |-> participants,
         nodes |-> {[id |-> p, label |-> SimpleName(p)] : p \in participants},
         calls_by_relation |-> calls_by_relation,
         edges |-> {[caller |-> relation[1], callee |-> relation[2],
                     label |-> EdgeLabel(calls_by_relation[relation])]
                    : relation \in {r \in DOMAIN calls_by_relation : r[1] # r[2]}}]

----------------------------------------------------------------------------
(* diagrams/generate_diagrams.py: generate_component_diagram *)

\* the elements of a list in the order of their first occurrence
RECURSIVE Unique(_)
Unique(l) ==
    IF l = << >> THEN << >>
    ELSE LET init == Unique(SubSeq(l, 1, Len(l) - 1))
             last == l[Len(l)]
         IN  IF \E i \in 1..Len(init) : init[i] = last THEN init ELSE Append(init, last)

\* lines 318-320: the package a file is filed under in the first loop
PackageName(data) ==
    IF Get(data, "package", << >>) = << >> THEN <<"d", "e", "f", "a", "u", "l", "t">> ELSE Get(data, "package", << >>)

\* lines 316-331: the keys of packages, in the order they are created
Packages(index) ==
    Unique([i \in 1..Len(index.keys) |-> PackageName(index.at[index.keys[i]])])

\* lines 333-336: packages[package_name]["classes"]
PackageClasses(index, package_name) ==
    Unique(Flatten([i \in 1..Len(index.keys) |->
        IF PackageName(index.at[index.keys[i]]) = package_name
        THEN Get(index.at[index.keys[i]], "classes", << >>)
        ELSE << >>]))

\* line 370 and line 403
ComponentId(package_name, class_name) == package_name \o <<".">> \o class_name

\* lines 349-389: the class nodes, each in the cluster of its package; a
\* package without classes gets no cluster
ComponentNodes(index) ==
    UNION { {[id |-> ComponentId(Packages(index)[p], PackageClasses(index, Packages(index)[p])[c]),
              class_name |-> PackageClasses(index, Packages(index)[p])[c],
              cluster |-> Packages(index)[p]]
             : c \in 1..Len(PackageClasses(index, Packages(index)[p]))}
          : p \in 1..Len(Packages(index)) }

\* line 399: data.get("package", "default")
SourcePackage(data) == Get(data, "package", <<"d", "e", "f", "a", "u", "l", "t">>)

\* lines 412-421: the node a dependency of a file of source_package points to
TargetId(dep, source_package) ==
    IF HasDot(dep)
    THEN LET target_class == SimpleName(dep)
             target_package == SubSeq(dep, 1, Len(dep) - Len(target_class) - 1)
         IN  ComponentId(target_package, target_class)
    ELSE ComponentId(source_package, dep)

\* lines 406-409: the dependencies of a file that the edge loop goes on with
Dependencies(data) ==
    SelectSeq(Get(data, "dependencies", << >>), LAMBDA dep : ~Excluded(dep))

\* lines 394-421: the (source_id, target_id) pairs in the order the loops
\* reach the test of line 424
EdgeCandidates(index) ==
    Flatten([i \in 1..Len(index.keys) |->
        LET data == index.at[index.keys[i]] IN
        Flatten([c \in 1..Len(Get(data, "classes", << >>)) |->
            [d \in 1..Len(Dependencies(data)) |->
                << ComponentId(SourcePackage(data), Get(data, "classes", << >>)[c]),
                   TargetId(Dependencies(data)[d], SourcePackage(data)) >>]])])

\* a test that does not look the pair up in edge_set
EdgeWantedRepeated(source_id, target_id, components, edge_set) ==
    /\ source_id \in components
    /\ target_id \in components
    /\ source_id # target_id

\* lines 424-426
EdgeWanted(source_id, target_id, components, edge_set) ==
    /\ source_id \in components
    /\ target_id \in components
    /\ source_id # target_id
    /\ <<source_id, target_id>> \notin edge_set

\* lines 424-440: the edges added to the graph, in the order they are added
RECURSIVE ComponentEdges(_, _)
ComponentEdges(candidates, components) ==
    IF candidates = << >> THEN << >>
    ELSE LET edges == ComponentEdges(SubSeq(candidates, 1, Len(candidates) - 1), components)
             source_id == candidates[Len(candidates)][1]
             target_id == candidates[Len(candidates)][2]
         IN  IF EdgeWanted(source_id, target_id, components,
                           {<<edges[k].source, edges[k].target>> : k \in 1..Len(edges)})
             THEN Append(edges, [source |-> source_id, target |-> target_id,
                                 label |-> <<"u", "s", "e", "s">>])
             ELSE edges

NoComponents == [built |-> FALSE, components |-> {}, nodes |-> {}, edges |-> << >>]

\* lines 294-440: the graph handed to write_png; the set of nodes does not
\* keep the order in which the nodes are added.  The dependencies collected
\* per package (lines 339-346) are not read again.
ComponentGraph(index) ==
    LET components == {n.id : n \in ComponentNodes(index)} IN
    [built |-> TRUE,
     components |-> components,
     nodes |-> ComponentNodes(index),
     edges |-> ComponentEdges(EdgeCandidates(index), components)]

----------------------------------------------------------------------------
(* impactanalysis.py: main and scan_directory_incremental *)

\* lines 137-140: the views main generates
Views == {"context", "component", "class", "sequence"}

java_files == DOMAIN repo

Missing == [exists |-> FALSE, text |-> << >>]

\* the index files a run can find: none, an empty file, a truncated file,
\* an empty index
InitialFiles ==
    { Missing,
      [exists |-> TRUE, text |-> << >>],
      [exists |-> TRUE, text |-> <<LBrace, TStr("Base.java"), Colon>>],
      [exists |-> TRUE, text |-> <<LBrace, RBrace>>] }

Init ==
    /\ \E r \in Repos : \E broken \in SUBSET DOMAIN r :
          /\ Cardinality(broken) <= MaxBroken
          /\ repo = [f \in DOMAIN r |-> IF f \in broken THEN Unparsable ELSE r[f]]
    /\ disk \in InitialFiles
    /\ main_pc \in {"clear", "scan"}
    /\ run = 1
    /\ index_data = EmptyDict
    /\ index0 = EmptyDict
    /\ task = [f \in java_files |-> "idle"]
    /\ collected = {}
    /\ errors = << >>
    /\ faults = 0
    /\ graph = NoGraph
    /\ outcome = [v \in Views |-> "none"]
    /\ sequence_diagram = NoSequence
    /\ component_diagram = NoComponents

\* main, line 134: clear_index_directory(INDEX_DIR)
ClearIndexDirectory ==
    /\ main_pc = "clear"
    /\ disk' = Missing
    /\ main_pc' = "clone"
    /\ UNCHANGED <<repo, run, index_data, index0, task, collected, errors, faults, graph, outcome, sequence_diagram, component_diagram>>

\* main, line 135: when clone_repository() returns False nothing else is done
CloneRepository ==
    /\ main_pc = "clone"
    /\ \E cloned \in BOOLEAN : main_pc' = IF cloned THEN "scan" ELSE "not_cloned"
    /\ UNCHANGED <<repo, disk, run, index_data, index0, task, collected, errors, faults, graph,
                   outcome, sequence_diagram, component_diagram>>

\* lines 36-47: the index is loaded once; without a Java file the function
\* returns, otherwise one task per file is submitted
ScanStart ==
    /\ main_pc = "scan"
    /\ LET loaded == load_from_file(disk) IN
       IF loaded.raised
       THEN /\ main_pc' = "raised"
            /\ UNCHANGED <<disk, index_data, index0, task, collected, errors>>
       ELSE /\ index_data' = loaded.data
            /\ disk' = loaded.file
            /\ index0' = loaded.data
            /\ IF java_files = {}
               THEN /\ main_pc' = "context"
                    /\ UNCHANGED <<task, collected, errors>>
               ELSE /\ task' = [f \in java_files |-> "pending"]
                    /\ collected' = {}
                    /\ errors' = << >>
                    /\ main_pc' = "indexing"
    /\ UNCHANGED <<repo, run, faults, graph, outcome, sequence_diagram, component_diagram>>

\* parse_java_file, lines 22-33: a file that does not parse is logged and the
\* task returns; otherwise the entry of the file is looked up or created
TaskParse(f) ==
    /\ main_pc = "indexing"
    /\ task[f] = "pending"
    /\ IF repo[f].parses
       THEN /\ index_data' = EnterEntry(index_data, f)
            /\ task' = [task EXCEPT ![f] = "entered"]
       ELSE /\ task' = [task EXCEPT ![f] = "returned"]
            /\ UNCHANGED index_data
    /\ UNCHANGED <<repo, disk, main_pc, run, index0, collected, errors, faults, graph, outcome, sequence_diagram, component_diagram>>

\* parse_java_file, lines 35-39
TaskPackage(f) ==
    /\ task[f] = "entered"
    /\ index_data' = ExtractPackage(index_data, f, repo[f])
    /\ task' = [task EXCEPT ![f] = "packaged"]
    /\ UNCHANGED <<repo, disk, main_pc, run, index0, collected, errors, faults, graph, outcome, sequence_diagram, component_diagram>>

\* parse_java_file, lines 41-60
TaskClasses(f) ==
    /\ task[f] = "packaged"
    /\ index_data' = ExtractClasses(index_data, f, repo[f])
    /\ task' = [task EXCEPT ![f] = "classified"]
    /\ UNCHANGED <<repo, disk, main_pc, run, index0, collected, errors, faults, graph, outcome, sequence_diagram, component_diagram>>

\* parse_java_file, lines 62-106
TaskCalls(f) ==
    /\ task[f] = "classified"
    /\ index_data' = ExtractCalls(index_data, f, repo[f])
    /\ task' = [task EXCEPT ![f] = "returned"]
    /\ UNCHANGED <<repo, disk, main_pc, run, index0, collected, errors, faults, graph, outcome, sequence_diagram, component_diagram>>

\* an exception raised by one of the three loops over the tree (lines 36-104)
\* ends the task; nothing in parse_java_file catches it
TaskRaise(f) ==
    /\ task[f] \in {"entered", "packaged", "classified"}
    /\ faults < MaxFaults
    /\ faults' = faults + 1
    /\ task' = [task EXCEPT ![f] = "raised"]
    /\ UNCHANGED <<repo, disk, main_pc, run, index_data, index0, collected, errors, graph, outcome, sequence_diagram, component_diagram>>

\* future.result() without the try/except: the exception of a task leaves
\* scan_directory_incremental
FutureResultUncaught(state, file, errs) ==
    IF state = "raised"
    THEN [errors |-> errs, pc |-> "raised"]
    ELSE [errors |-> errs, pc |-> "indexing"]

\* lines 49-52: future.result() inside try/except Exception
FutureResult(state, file, errs) ==
    IF state = "raised"
    THEN [errors |-> Append(errs, <<file, "error">>), pc |-> "indexing"]
    ELSE [errors |-> errs, pc |-> "indexing"]

\* an as_completed that yields a future as soon as it is submitted
FutureDoneEarly(state) == state # "idle"

\* line 48: as_completed yields the futures that have finished
FutureDone(state) == state \in {"returned", "raised"}

\* lines 48-53: as_completed yields a finished future
Collect(f) ==
    /\ main_pc = "indexing"
    /\ f \notin collected
    /\ FutureDone(task[f])
    /\ errors' = FutureResult(task[f], f, errors).errors
    /\ main_pc' = FutureResult(task[f], f, errors).pc
    /\ collected' = collected \cup {f}
    /\ UNCHANGED <<repo, disk, run, index_data, index0, task, faults, graph, outcome, sequence_diagram, component_diagram>>

\* lines 55-61: every future has been collected; the index is saved
ScanFinish ==
    /\ main_pc = "indexing"
    /\ collected = java_files
    /\ disk' = save_to_file(index_data)
    /\ main_pc' = "context"
    /\ UNCHANGED <<repo, run, index_data, index0, task, collected, errors, faults, graph, outcome, sequence_diagram, component_diagram>>

\* a generator that lets the exception of write_png out
WritePngUncaught(raises) ==
    [outcome |-> IF raises THEN "failed" ELSE "rendered", raised |-> raises]

\* generate_diagrams.py lines 138-142, 442-446, 654-658 and
\* generate_class_diagram.py lines 379-383: graph.write_png inside
\* try/except Exception
WritePng(raises) ==
    [outcome |-> IF raises THEN "failed" ELSE "rendered", raised |-> FALSE]

\* the write_png calls that have raised so far
RenderFaults == Cardinality({v \in Views : outcome[v] = "failed"})

\* generate_context_diagram, lines 268-279 and 32-142: an empty index skips
\* the view; the graph is local to the generator and is not kept.  The locals
\* of scan_directory_incremental are gone by now.
GenerateContextDiagram ==
    /\ main_pc = "context"
    /\ index_data' = EmptyDict
    /\ index0' = EmptyDict
    /\ task' = [f \in java_files |-> "idle"]
    /\ collected' = {}
    /\ errors' = << >>
    /\ LET loaded == load_from_file(disk) IN
       IF loaded.raised
       THEN /\ main_pc' = "raised"
            /\ UNCHANGED <<disk, outcome>>
       ELSE /\ disk' = loaded.file
            /\ IF ~Truthy(loaded.data)
               THEN /\ outcome' = [outcome EXCEPT !["context"] = "skipped"]
                    /\ main_pc' = "component"
               ELSE \E raises \in BOOLEAN :
                       /\ raises => RenderFaults < MaxRenderFaults
                       /\ outcome' = [outcome EXCEPT !["context"] = WritePng(raises).outcome]
                       /\ main_pc' = IF WritePng(raises).raised THEN "raised" ELSE "component"
    /\ UNCHANGED <<repo, run, faults, graph, sequence_diagram, component_diagram>>

\* generate_component_diagram, lines 281-446: an empty index skips the view
GenerateComponentDiagram ==
    /\ main_pc = "component"
    /\ LET loaded == load_from_file(disk) IN
       IF loaded.raised
       THEN /\ main_pc' = "raised"
            /\ UNCHANGED <<disk, outcome, component_diagram>>
       ELSE /\ disk' = loaded.file
            /\ IF ~Truthy(loaded.data)
               THEN /\ component_diagram' = NoComponents
                    /\ outcome' = [outcome EXCEPT !["component"] = "skipped"]
                    /\ main_pc' = "class"
               ELSE /\ component_diagram' = ComponentGraph(loaded.data)
                    /\ \E raises \in BOOLEAN :
                         /\ raises => RenderFaults < MaxRenderFaults
                         /\ outcome' = [outcome EXCEPT !["component"] = WritePng(raises).outcome]
                         /\ main_pc' = IF WritePng(raises).raised THEN "raised" ELSE "class"
    /\ UNCHANGED <<repo, run, index_data, index0, task, collected, errors, faults, graph, sequence_diagram>>

\* generate_class_diagram, lines 30-383: an empty index skips the pass
GenerateClassDiagram ==
    /\ main_pc = "class"
    /\ LET loaded == load_from_file(disk) IN
       IF loaded.raised
       THEN /\ main_pc' = "raised"
            /\ UNCHANGED <<disk, graph, outcome>>
       ELSE /\ disk' = loaded.file
            /\ IF ~Truthy(loaded.data)
               THEN /\ graph' = NoGraph
                    /\ outcome' = [outcome EXCEPT !["class"] = "skipped"]
                    /\ main_pc' = "sequence"
               ELSE /\ \E association \in
                          AssociationChoices(Relationships(loaded.data).association,
                                             ClassGraph(loaded.data, {}).processed_classes) :
                         graph' = ClassGraph(loaded.data, association)
                    /\ \E raises \in BOOLEAN :
                         /\ raises => RenderFaults < MaxRenderFaults
                         /\ outcome' = [outcome EXCEPT !["class"] = WritePng(raises).outcome]
                         /\ main_pc' = IF WritePng(raises).raised THEN "raised" ELSE "sequence"
    /\ UNCHANGED <<repo, run, index_data, index0, task, collected, errors, faults, sequence_diagram, component_diagram>>

\* generate_sequence_diagram, lines 514-658: an empty index skips the view
GenerateSequenceDiagram ==
    /\ main_pc = "sequence"
    /\ LET loaded == load_from_file(disk) IN
       IF loaded.raised
       THEN /\ main_pc' = "raised"
            /\ UNCHANGED <<disk, sequence_diagram, outcome>>
       ELSE /\ disk' = loaded.file
            /\ IF ~Truthy(loaded.data)
               THEN /\ sequence_diagram' = NoSequence
                    /\ outcome' = [outcome EXCEPT !["sequence"] = "skipped"]
                    /\ main_pc' = "done"
               ELSE /\ sequence_diagram' = SequenceGraph(loaded.data)
                    /\ \E raises \in BOOLEAN :
                         /\ raises => RenderFaults < MaxRenderFaults
                         /\ outcome' = [outcome EXCEPT !["sequence"] = WritePng(raises).outcome]
                         /\ main_pc' = IF WritePng(raises).raised THEN "raised" ELSE "done"
    /\ UNCHANGED <<repo, run, index_data, index0, task, collected, errors, faults, graph,
                   component_diagram>>

\* scan_directory_incremental is called again on the same directory before
\* the views are generated
Rescan ==
    /\ main_pc = "context"
    /\ run < MaxRuns
    /\ run' = run + 1
    /\ main_pc' = "scan"
    /\ UNCHANGED <<repo, disk, index_data, index0, task, collected, errors, faults, graph,
                   outcome, sequence_diagram, component_diagram>>

Next ==
    \/ ClearIndexDirectory
    \/ CloneRepository
    \/ ScanStart
    \/ \E f \in java_files : TaskParse(f)
    \/ \E f \in java_files : TaskPackage(f)
    \/ \E f \in java_files : TaskClasses(f)
    \/ \E f \in java_files : TaskCalls(f)
    \/ \E f \in java_files : TaskRaise(f)
    \/ \E f \in java_files : Collect(f)
    \/ ScanFinish
    \/ GenerateContextDiagram
    \/ GenerateComponentDiagram
    \/ GenerateClassDiagram
    \/ GenerateSequenceDiagram
    \/ Rescan

Spec == Init /\ [][Next]_vars

----------------------------------------------------------------------------
(* generate_class_diagram.py, lines 335-353: the loop that draws the       *)
(* association edges, run on relationship sets of every size up to MaxPairs *)

\* the classes of the relationship sets the loop is run on
CapClasses == <<<<"a", "p", "p", ".", "C", "1">>, <<"a", "p", "p", ".", "C", "2">>, <<"a", "p", "p", ".", "C", "3">>, <<"a", "p", "p", ".", "C", "4">>, <<"a", "p", "p", ".", "C", "5">>, <<"a", "p", "p", ".", "C", "6">>, <<"a", "p", "p", ".", "C", "7">>>>

\* the k-th pair of two different classes
CapPair(k) ==
    LET others == Len(CapClasses) - 1
        a == ((k - 1) \div others) + 1
        b == ((k - 1) % others) + 1
    IN  <<CapClasses[a], CapClasses[IF b >= a THEN b + 1 ELSE b]>>

\* lines 54-62 and 221-293: processed_classes and relationships["association"]
\* as the two passes leave them
CapInit ==
    /\ repo = << >>
    /\ disk = Missing
    /\ main_pc = "associations"
    /\ run = 1
    /\ index_data = EmptyDict
    /\ index0 = EmptyDict
    /\ task = << >>
    /\ collected = {}
    /\ errors = << >>
    /\ faults = 0
    /\ outcome = [v \in Views |-> "none"]
    /\ sequence_diagram = NoSequence
    /\ component_diagram = NoComponents
    /\ \E n \in 0..MaxPairs :
       \E processed_classes \in SUBSET {CapClasses[i] : i \in 1..Len(CapClasses)} :
          graph = [NoGraph EXCEPT !.processed_classes = processed_classes,
                                  !.relationships.association = {CapPair(k) : k \in 1..n}]

\* lines 335-353
DrawAssociations ==
    /\ main_pc = "associations"
    /\ \E association \in AssociationChoices(graph.relationships.association,
                                             graph.processed_classes) :
          graph' = [graph EXCEPT !.built = TRUE, !.edges.association = association]
    /\ main_pc' = "legend"
    /\ UNCHANGED <<repo, disk, run, index_data, index0, task, collected, errors, faults,
                   outcome, sequence_diagram, component_diagram>>

CapSpec == CapInit /\ [][DrawAssociations]_vars

----------------------------------------------------------------------------
(* generate_class_diagram.py, lines 72-353: the first pass and the four     *)
(* loops that draw the relationship edges, run on indexes that declare a   *)
(* qualified name more than once and on relationship sets of up to         *)
(* MaxRelations pairs, whose ends may be classes that are excluded or not   *)
(* indexed.  (In the whole pass the attribute list, the parent and the      *)
(* interfaces of every class are constants and the four sets stay empty.)  *)

\* Order.java, Customer.java and Rule.java indexed once
IndexWithExcluded ==
    Extract(Extract(Extract(EmptyDict, "Order.java", OrderJava),
                    "Customer.java", CustomerJava),
            "Rule.java", RuleJava)

\* A.java declares app.Order too, and Order.java has been parsed twice
IndexWithDuplicates ==
    Extract(Extract(Extract(Extract(EmptyDict, "Order.java", OrderJava),
                            "Customer.java", CustomerJava),
                    "A.java", OrderJava),
            "Order.java", OrderJava)

\* the same files, entered in another order
IndexWithDuplicatesLater ==
    Extract(Extract(Extract(Extract(EmptyDict, "Customer.java", CustomerJava),
                            "A.java", OrderJava),
                    "Order.java", OrderJava),
            "Order.java", OrderJava)

\* files without package: A.java declares Flag and Base as Base.java does
IndexWithBareDuplicates ==
    Extract(Extract(Extract(EmptyDict, "Base.java", BaseJava),
                    "Derived.java", DerivedJava),
            "A.java", BaseJava)

ClassIndexes ==
    {IndexWithExcluded, IndexWithDuplicates, IndexWithDuplicatesLater, IndexWithBareDuplicates}

\* the names the ends of a relationship are taken from: two classes of the
\* index, a class of the index that is excluded, a class that is not indexed
EndNames == {<<"a", "p", "p", ".", "O", "r", "d", "e", "r">>, <<"a", "p", "p", ".", "C", "u", "s", "t", "o", "m", "e", "r">>, <<"j", "u", "n", "i", "t", ".", "R", "u", "l", "e">>, <<"a", "p", "p", ".", "I", "t", "e", "m">>}

EndPairs == {pair \in EndNames \X EndNames : pair[1] # pair[2]}

\* lines 57-62: relationships as the passes leave it
RelationshipSets ==
    UNION { {[kind \in {"inheritance", "composition", "aggregation", "association"} |->
                 {pair \in pairs : kind_of[pair] = kind}]
             : kind_of \in [pairs -> {"inheritance", "composition", "aggregation",
                                      "association"}]}
          : pairs \in {s \in SUBSET EndPairs : Cardinality(s) <= MaxRelations} }

ClassInit ==
    /\ repo = << >>
    /\ disk = Missing
    /\ main_pc = "first_pass"
    /\ run = 1
    /\ index_data \in ClassIndexes
    /\ index0 = EmptyDict
    /\ task = << >>
    /\ collected = {}
    /\ errors = << >>
    /\ faults = 0
    /\ outcome = [v \in Views |-> "none"]
    /\ sequence_diagram = NoSequence
    /\ component_diagram = NoComponents
    /\ \E relationships \in RelationshipSets :
          graph = [NoGraph EXCEPT !.relationships = relationships]

\* lines 72-218: the nodes of the classes
ClassNodes ==
    /\ main_pc = "first_pass"
    /\ LET first == FirstPass(ClassOccurrences(index_data),
                        [processed_classes |-> {}, nodes |-> << >>, inheritance |-> {}])
       IN  graph' = [graph EXCEPT !.processed_classes = first.processed_classes,
                                  !.nodes = first.nodes]
    /\ main_pc' = "relationships"
    /\ UNCHANGED <<repo, disk, run, index_data, index0, task, collected, errors, faults,
                   outcome, sequence_diagram, component_diagram>>

\* lines 295-353: the edges of the four kinds
DrawRelationships ==
    /\ main_pc = "relationships"
    /\ \E association \in AssociationChoices(graph.relationships.association,
                                             graph.processed_classes) :
          graph' = [graph EXCEPT
                      !.built = TRUE,
                      !.edges = [inheritance |-> Drawable(graph.relationships.inheritance,
                                                          graph.processed_classes),
                                 composition |-> Drawable(graph.relationships.composition,
                                                          graph.processed_classes),
                                 aggregation |-> Drawable(graph.relationships.aggregation,
                                                          graph.processed_classes),
                                 association |-> association]]
    /\ main_pc' = "legend"
    /\ UNCHANGED <<repo, disk, run, index_data, index0, task, collected, errors, faults,
                   outcome, sequence_diagram, component_diagram>>

ClassNext == ClassNodes \/ DrawRelationships

ClassSpec == ClassInit /\ [][ClassNext]_vars

----------------------------------------------------------------------------
(* Properties *)

\* scan_directory_incremental has returned and its locals are still in view
ScanDone == main_pc = "context"

\* the task of f ended without an entry for what the file holds
Failed(f) == ~repo[f].parses \/ task[f] = "raised"

Succeeded(f) == repo[f].parses /\ task[f] = "returned"

\* the entry extracting the file once into an empty index gives
Once(f) == Extract(EmptyDict, f, repo[f]).at[f]

\* C1: indexing is idempotent per path: when the index already holds the entry
\* of an unchanged file, extracting the file again leaves an entry equal to the
\* one extracting it once gives
C1_Idempotent ==
    ScanDone =>
        \A f \in java_files :
            (Succeeded(f) /\ Has(index0, f) /\ index0.at[f] = Once(f))
                => index_data.at[f] = Once(f)

\* C2: whatever files fail, every task is run to its end, the record of every
\* other file is merged into the index, the index is saved, and no exception
\* leaves scan_directory_incremental (a directory without Java files is not
\* indexed at all)
C2_FaultIsolation ==
    /\ main_pc # "raised"
    /\ (ScanDone /\ java_files # {}) =>
          /\ \A f \in java_files : task[f] \in {"returned", "raised"}
          /\ \A f \in java_files :
                Succeeded(f) =>
                    /\ Has(index_data, f)
                    /\ index_data.at[f] = Extract(index0, f, repo[f]).at[f]
          /\ disk = save_to_file(index_data)

C2_Witness ==
    /\ ScanDone
    /\ \E f, g, h \in java_files : ~repo[f].parses /\ task[g] = "raised" /\ Succeeded(h)

\* C3: after indexing the errors list holds exactly one pair for every file
\* whose extraction failed, a file that does not parse included, and none for
\* a file that succeeded
C3_EveryFailureListed ==
    ScanDone =>
        \A f \in java_files :
            Cardinality({i \in 1..Len(errors) : errors[i][1] = f})
                = IF Failed(f) THEN 1 ELSE 0

\* C4: a failed task leaves the entry of its path as it was before the task
\* started, absent if it was absent; from an empty index, N files with k
\* failures give N - k entries
C4_FailureLeavesEntry ==
    /\ \A f \in java_files :
          (main_pc \in {"indexing", "class", "done"} /\ task[f] \in {"returned", "raised"}
             /\ Failed(f))
            => /\ Has(index_data, f) <=> Has(index0, f)
               /\ Has(index0, f) => index_data.at[f] = index0.at[f]
    /\ (ScanDone /\ index0 = EmptyDict)
          => Len(index_data.keys) = Cardinality({f \in java_files : ~Failed(f)})

\* C5: load_from_file on the file save_to_file wrote gives the index that was
\* saved: the same paths and, for every path, the same fields and values
C5_RoundTrip ==
    ScanDone => load_from_file(disk).data = index_data

C5_Witness ==
    /\ ScanDone
    /\ Len(index_data.keys) >= 2
    /\ \E f \in java_files :
          /\ Has(index_data, f)
          /\ index_data.at[f].at.call_graph # << >>
          /\ index_data.at[f].at.methods # << >>
          /\ index_data.at[f].at.package # << >>

Malformed(file) == file.exists /\ ~JsonLoad(file.text).ok

\* C6: when the index file is missing or malformed the load raises nothing and
\* indexing starts from an empty index
C6_LoadDegrades ==
    [][(main_pc = "scan" /\ (~disk.exists \/ Malformed(disk)))
         => (/\ main_pc' = (IF java_files # {} THEN "indexing" ELSE "context")
             /\ index_data' = EmptyDict /\ index0' = EmptyDict
             /\ java_files # {} => \A f \in java_files : task'[f] = "pending")]_vars

C6_Witness ==
    /\ main_pc = "indexing"
    /\ Malformed(disk)
    /\ index0 = EmptyDict
    /\ \E f \in java_files : task[f] = "returned" /\ Has(index_data, f)

Kinds == {"inheritance", "composition", "aggregation", "association"}

\* C7: none of the four relationship sets of the class diagram pass holds a
\* pair whose source and target are the same qualified name
C7_NoSelfEdge ==
    graph.built =>
        \A kind \in Kinds : \A e \in graph.relationships[kind] : e[1] # e[2]

\* the pass ran on an index that holds class A, which has a field of type A
C7_Witness ==
    /\ graph.built
    /\ <<"A">> \in graph.processed_classes
    /\ Cardinality(graph.processed_classes) >= 2

\* the resolved parent and interfaces the sources declare for a qualified name
DeclaredSupers(name) ==
    UNION { UNION { IF repo[f].types[i].kind = "class"
                       /\ FullClassName(repo[f].package, repo[f].types[i].name) = name
                    THEN (IF repo[f].types[i].extends # << >>
                          THEN {Qualify(repo[f].types[i].extends, repo[f].package)}
                          ELSE {})
                         \cup {Qualify(repo[f].types[i].implements[j], repo[f].package)
                               : j \in 1..Len(repo[f].types[i].implements)}
                    ELSE {}
                  : i \in 1..Len(repo[f].types) }
          : f \in java_files }

\* C8: an inheritance pair (A, B) is there only if B is the resolved parent of
\* A or one of its resolved interfaces; the pair (B, A) is not emitted for a
\* declaration of A
C8_ChildToParent ==
    graph.built =>
        /\ \A e \in graph.relationships.inheritance : e[2] \in DeclaredSupers(e[1])
        /\ \A a \in graph.processed_classes : \A b \in DeclaredSupers(a) :
              a \notin DeclaredSupers(b) => <<b, a>> \notin graph.relationships.inheritance

\* the pass ran on an index that holds Derived, which extends Base, and Base
C8_Witness ==
    /\ graph.built
    /\ <<"D", "e", "r", "i", "v", "e", "d">> \in graph.processed_classes
    /\ <<"B", "a", "s", "e">> \in graph.processed_classes
    /\ <<"B", "a", "s", "e">> \in DeclaredSupers(<<"D", "e", "r", "i", "v", "e", "d">>)

\* the indexes one scan of the two files builds from an empty index
IndexOfTwo(f, tree_f, g, tree_g) ==
    { Extract(Extract(EmptyDict, f, tree_f), g, tree_g),
      Extract(Extract(EmptyDict, g, tree_g), f, tree_f) }

\* C9: for the index of class Base and class Derived extends Base implements
\* Flag the pass gives exactly the inheritance pairs (Derived, Base) and
\* (Derived, Flag)
C9_InheritanceScenario ==
    (graph.built /\ load_from_file(disk).data
                      \in IndexOfTwo("Base.java", BaseJava, "Derived.java", DerivedJava))
        => graph.relationships.inheritance
              = { <<<<"D", "e", "r", "i", "v", "e", "d">>, <<"B", "a", "s", "e">>>>, <<<<"D", "e", "r", "i", "v", "e", "d">>, <<"F", "l", "a", "g">>>> }

\* C10: for package app with class Order (customer: Customer, final id: OrderId,
\* items: List<Item>) and class Customer the pass gives association
\* (app.Order, app.Customer), composition (app.Order, app.OrderId), aggregation
\* (app.Order, app.Item) and no inheritance pair
C10_FieldScenario ==
    (graph.built /\ load_from_file(disk).data
                      \in IndexOfTwo("Order.java", OrderJava, "Customer.java", CustomerJava))
        => /\ graph.relationships.association = { <<<<"a", "p", "p", ".", "O", "r", "d", "e", "r">>, <<"a", "p", "p", ".", "C", "u", "s", "t", "o", "m", "e", "r">>>> }
           /\ graph.relationships.composition = { <<<<"a", "p", "p", ".", "O", "r", "d", "e", "r">>, <<"a", "p", "p", ".", "O", "r", "d", "e", "r", "I", "d">>>> }
           /\ graph.relationships.aggregation = { <<<<"a", "p", "p", ".", "O", "r", "d", "e", "r">>, <<"a", "p", "p", ".", "I", "t", "e", "m">>>> }
           /\ graph.relationships.inheritance = {}

\* C11: the class view never holds more association edges than
\* max_associations, whatever the size of the association relationship set
C11_AssociationCap ==
    graph.built => Cardinality(graph.edges.association) <= max_associations

\* more drawable association pairs than the cap, and the loop has run
C11_Witness ==
    /\ graph.built
    /\ Cardinality(Drawable(graph.relationships.association, graph.processed_classes))
          > max_associations
    /\ Cardinality(graph.edges.association) = max_associations

\* the index with its paths inserted in another order
Reordered(data, order) == [keys |-> order, at |-> data.at]

\* the orders in which the paths of keys can be inserted
Orders(keys) ==
    {order \in [1..Len(keys) -> {keys[i] : i \in 1..Len(keys)}] :
        \A i, j \in 1..Len(keys) : order[i] = order[j] => i = j}

\* C12: when the class pass has run, its relationship sets and the edges drawn
\* from them are those of every other order in which the tasks could have
\* inserted the same entries
C12_OrderIndependent ==
    (main_pc = "sequence" /\ graph.built) =>
        LET data == load_from_file(disk).data IN
        \A order \in Orders(data.keys) :
            LET other == ClassGraph(Reordered(data, order), {}) IN
            /\ other.relationships = graph.relationships
            /\ \A kind \in {"inheritance", "composition", "aggregation"} :
                   other.edges[kind] = graph.edges[kind]

\* the class pass ran on an index whose paths were inserted in the order
\* Derived.java, Base.java: the task of the second file entered the index first
C12_Witness ==
    /\ main_pc = "sequence"
    /\ graph.built
    /\ load_from_file(disk).data.keys = <<"Derived.java", "Base.java">>
    /\ {<<"B", "a", "s", "e">>, <<"D", "e", "r", "i", "v", "e", "d">>} \subseteq graph.processed_classes

\* C13: a view generator that finds the index empty returns without building
\* a graph, without calling write_png and without raising (a step to "scan"
\* is not a step of a generator)
C13_EmptyIndexSkips ==
    [][(main_pc \in Views /\ main_pc' # "scan" /\ load_from_file(disk).data = EmptyDict)
         => /\ main_pc' # "raised"
            /\ outcome'[main_pc] = "skipped"
            /\ ~graph'.built
            /\ ~sequence_diagram'.built]_vars

\* the four generators have run on an empty index
C13_Witness ==
    /\ main_pc = "done"
    /\ load_from_file(disk).data = EmptyDict
    /\ \A v \in Views : outcome[v] = "skipped"

\* main, lines 137-140: the order of the views
ViewOrder == <<"context", "component", "class", "sequence", "done">>

\* C14: no failure of write_png leaves a generator, and the views attempted
\* when main is at a generator are the ones before it, whichever of them failed
\* to render; at the end all four have been attempted
C14_RenderIsolation ==
    /\ main_pc = "raised" => \A v \in Views : outcome[v] # "failed"
    /\ \A i \in 1..Len(ViewOrder) :
          main_pc = ViewOrder[i] =>
              \A j \in 1..Len(ViewOrder) - 1 : (outcome[ViewOrder[j]] # "none") <=> (j < i)

\* the first view failed to render and the three after it were rendered
C14_Witness ==
    /\ main_pc = "done"
    /\ outcome["context"] = "failed"
    /\ \A v \in Views \ {"context"} : outcome[v] = "rendered"

\* the task of f has been submitted and has not ended
Running(f) == task[f] \in {"pending", "entered", "packaged", "classified"}

\* C15: while an extraction task is running the index file is not written and
\* no view generator starts or acts
C15_PhaseOrdering ==
    [][(\E f \in java_files : Running(f))
         => /\ disk' = disk
            /\ main_pc' \notin Views
            /\ outcome' = outcome
            /\ graph' = graph
            /\ sequence_diagram' = sequence_diagram]_vars

\* a generator has read the index that two tasks or more had filled
C15_Witness ==
    /\ main_pc = "component"
    /\ outcome["context"] = "rendered"
    /\ Cardinality(java_files) >= 2
    /\ \A f \in java_files :
          /\ Has(load_from_file(disk).data, f)
          /\ load_from_file(disk).data.at[f] = Once(f)

\* the entry of a path, << >> when the index holds none
Entry(data, f) == IF Has(data, f) THEN <<data.at[f]>> ELSE << >>

\* C16: during indexing the entry of a path is the one the index was loaded
\* with (or absent), or the complete record of the file
C16_AtomicMerge ==
    main_pc = "indexing" =>
        \A f \in java_files :
            Entry(index_data, f) \in {Entry(index0, f), <<Extract(index0, f, repo[f]).at[f]>>}

\* C17: a step of the task of one path leaves the entry of every other path
\* as it is, and when indexing ends the entry of every path extracted with
\* success is the one extracting that file alone gives
C17_NoInterference ==
    [][main_pc = "indexing"
         => /\ \A q \in java_files :
                  task'[q] = task[q] => Entry(index_data', q) = Entry(index_data, q)
            /\ main_pc' = "context" =>
                  \A f \in java_files :
                      Succeeded(f) => Entry(index_data', f) = <<Extract(index0, f, repo[f]).at[f]>>]_vars

\* two tasks are in the middle of their extraction at the same time
C17_Witness ==
    /\ main_pc = "indexing"
    /\ \E f, g \in java_files :
          /\ f # g
          /\ task[f] = "classified"
          /\ task[g] = "packaged"
          /\ index_data.at[f].at.classes # << >>
          /\ index_data.at[g].at.classes = << >>

\* the calls of the index a sequence diagram pass reads, field by field
ReadCalls ==
    LET calls == IndexCalls(load_from_file(disk).data) IN
    [i \in 1..Len(calls) |-> CallFields(calls[i])]

\* the index without the calls whose callee method is a utility method
WithoutUtilityCalls(data) ==
    [data EXCEPT !.at =
        [p \in DOMAIN data.at |->
            IF Has(data.at[p], "call_graph")
            THEN [data.at[p] EXCEPT !.at.call_graph =
                    SelectSeq(@, LAMBDA call :
                        Get(call, "callee_method", << >>) \notin utility_methods)]
            ELSE data.at[p]]]

\* C18: the sequence view is the one the index gives without its calls to
\* utility methods: such a call adds no node, no edge, no count and no label
C18_UtilityCallsIgnored ==
    sequence_diagram.built =>
        sequence_diagram = SequenceGraph(WithoutUtilityCalls(load_from_file(disk).data))

\* C19: every call between two different classes that match no excluded
\* pattern, to a method that is no utility method, has an edge from the class
\* of the caller to the class of the callee and is in the calls of that edge as
\* often as it is in the index, whatever the calling method is called
C19_CallsRepresented ==
    sequence_diagram.built =>
        \A i \in 1..Len(ReadCalls) :
            LET c == ReadCalls[i]
                relation == <<c.caller_class, c.callee_class>>
                pair == [caller_method |-> c.caller_method, callee_method |-> c.callee_method]
            IN  (/\ c.caller_class # c.callee_class
                 /\ ~Excluded(c.caller_class)
                 /\ ~Excluded(c.callee_class)
                 /\ c.callee_method \notin utility_methods)
                => /\ \E e \in sequence_diagram.edges :
                         e.caller = c.caller_class /\ e.callee = c.callee_class
                   /\ relation \in DOMAIN sequence_diagram.calls_by_relation
                   /\ LET counted == sequence_diagram.calls_by_relation[relation] IN
                      Cardinality({k \in 1..Len(counted) : counted[k] = pair})
                          = Cardinality({j \in 1..Len(ReadCalls) : ReadCalls[j] = c})

\* C20: the sequence view has no edge from a class to itself, and no node and
\* no end of an edge is a class that matches an excluded pattern
C20_NoSelfNoExcluded ==
    sequence_diagram.built =>
        /\ \A e \in sequence_diagram.edges :
              e.caller # e.callee /\ ~Excluded(e.caller) /\ ~Excluded(e.callee)
        /\ \A n \in sequence_diagram.nodes : ~Excluded(n.id)
        /\ \A p \in sequence_diagram.participants : ~Excluded(p)

\* the pass ran on an index that holds a call to a class of java.util and a
\* call of a class to itself that the first pass keeps, and drew an edge
C20_Witness ==
    /\ sequence_diagram.built
    /\ sequence_diagram.edges # {}
    /\ \E i \in 1..Len(ReadCalls) : Excluded(ReadCalls[i].callee_class)
    /\ \E relation \in DOMAIN sequence_diagram.calls_by_relation : relation[1] = relation[2]

\* s holds sub as a run of consecutive characters
Contains(s, sub) ==
    \E i \in 0..(Len(s) - Len(sub)) : SubSeq(s, i + 1, i + Len(sub)) = sub

\* a call as a label shows it
CallText(call) == call.caller_method \o <<" ", "-", ">", " ">> \o call.callee_method

\* C21: the sequence view has exactly one edge for every pair of different
\* classes that has retained calls and no other edge; the label of the edge of
\* a pair with at most 3 retained calls shows each of these calls as
\* "caller method -> callee method", and the label is "<n> calls", n the number
\* of retained calls of the pair, only when the pair has more than 3
C21_EdgeLabels ==
    sequence_diagram.built =>
        LET calls_by_relation == sequence_diagram.calls_by_relation
            drawn == {r \in DOMAIN calls_by_relation : r[1] # r[2]}
        IN  /\ \A r \in drawn :
                  Cardinality({e \in sequence_diagram.edges :
                                  e.caller = r[1] /\ e.callee = r[2]}) = 1
            /\ \A e \in sequence_diagram.edges :
                  /\ <<e.caller, e.callee>> \in drawn
                  /\ LET calls == calls_by_relation[<<e.caller, e.callee>>] IN
                     IF Len(calls) <= 3
                     THEN /\ \A i \in 1..Len(calls) : Contains(e.label, CallText(calls[i]))
                          /\ e.label # Str(Len(calls)) \o <<" ", "c", "a", "l", "l", "s">>
                     ELSE e.label = Str(Len(calls)) \o <<" ", "c", "a", "l", "l", "s">>

\* the classes of the calls the first pass keeps
RetainedClasses ==
    LET calls == ReadCalls IN
    UNION {{calls[i].caller_class, calls[i].callee_class} :
              i \in {k \in 1..Len(calls) : Significant(calls[k])}}

\* C27 as stated: every node of the sequence view is an end of one of its
\* edges
C27_EveryNodeHasEdge ==
    sequence_diagram.built =>
        \A n \in sequence_diagram.nodes :
            \E e \in sequence_diagram.edges : e.caller = n.id \/ e.callee = n.id

\* C27 amended: the nodes of the sequence view are the classes that are the
\* caller or the callee of a retained call, calls of a class to itself
\* included, one node for each; the ends of every edge are nodes
C27_NodesAreRetainedClasses ==
    sequence_diagram.built =>
        LET retained == RetainedClasses IN
        /\ {n.id : n \in sequence_diagram.nodes} = retained
        /\ Cardinality(sequence_diagram.nodes) = Cardinality(retained)
        /\ \A e \in sequence_diagram.edges : {e.caller, e.callee} \subseteq retained

\* the pass ran on an index in which the only retained call of a class is a
\* call to itself: the class is a node and no edge ends at it
C27_Witness ==
    /\ sequence_diagram.built
    /\ \E n \in sequence_diagram.nodes :
          /\ <<n.id, n.id>> \in DOMAIN sequence_diagram.calls_by_relation
          /\ \A e \in sequence_diagram.edges : e.caller # n.id /\ e.callee # n.id

\* the call_graph lists of the entries of an index
CallGraphs(data) ==
    {Get(data.at[p], "call_graph", << >>) : p \in DOMAIN data.at}

\* the calls of the list are numbered 1, 2, 3, ... in the order of the list
Numbered(call_graph) ==
    \A i \in 1..Len(call_graph) : call_graph[i].at.sequence = i

\* C25: in every entry of the index, while the tasks fill it and in the index
\* file read back after the scan, the i-th call of call_graph has sequence i,
\* so the numbers are distinct and increase along the list, also when the file
\* is parsed again onto its entry
C25_SequenceNumbers ==
    /\ \A call_graph \in CallGraphs(index_data) : Numbered(call_graph)
    /\ ScanDone =>
          \A call_graph \in CallGraphs(load_from_file(disk).data) :
              /\ Numbered(call_graph)
              /\ \A i, j \in 1..Len(call_graph) :
                    i < j => call_graph[i].at.sequence < call_graph[j].at.sequence

\* a file with at least two calls has been parsed a second time onto its
\* entry and the index has been saved
C25_Witness ==
    /\ ScanDone
    /\ run = 2
    /\ \E f \in java_files :
          /\ Has(load_from_file(disk).data, f)
          /\ Len(Invocations(f, repo[f])) >= 2
          /\ Len(load_from_file(disk).data.at[f].at.call_graph)
                = 2 * Len(Invocations(f, repo[f]))

\* the entries of the index a component diagram pass reads
ReadEntries ==
    LET index == load_from_file(disk).data IN
    {index.at[p] : p \in DOMAIN index.at}

\* the ids of the class nodes of the component view
ComponentNodeIds == {n.id : n \in component_diagram.nodes}

\* C24: the edge list of the component view holds no (source, target) pair
\* twice and no edge from a node to itself, both ends of every edge are class
\* nodes of the view, and every edge comes from a dependency of a file of its
\* source class that starts with no excluded pattern
C24_ComponentEdges ==
    component_diagram.built =>
        LET edges == component_diagram.edges
            entries == ReadEntries
        IN
        /\ \A i, j \in 1..Len(edges) :
              (edges[i].source = edges[j].source /\ edges[i].target = edges[j].target) => i = j
        /\ \A i \in 1..Len(edges) :
              /\ edges[i].source # edges[i].target
              /\ edges[i].source \in ComponentNodeIds
              /\ edges[i].target \in ComponentNodeIds
              /\ \E data \in entries :
                 \E c \in 1..Len(Get(data, "classes", << >>)) :
                 \E d \in 1..Len(Get(data, "dependencies", << >>)) :
                    /\ ~Excluded(Get(data, "dependencies", << >>)[d])
                    /\ edges[i].source
                          = ComponentId(SourcePackage(data), Get(data, "classes", << >>)[c])
                    /\ edges[i].target
                          = TargetId(Get(data, "dependencies", << >>)[d], SourcePackage(data))

\* the pass drew two edges from an index that holds a dependency twice, a
\* dependency of a class on itself, and a dependency on junit.Rule, a class
\* that is a node of the view
C24_Witness ==
    /\ component_diagram.built
    /\ Len(component_diagram.edges) >= 2
    /\ <<"j", "u", "n", "i", "t", ".", "R", "u", "l", "e">> \in ComponentNodeIds
    /\ \E data \in ReadEntries :
          LET deps == Get(data, "dependencies", << >>) IN
          /\ \E i, j \in 1..Len(deps) : i # j /\ deps[i] = deps[j]
          /\ \E i \in 1..Len(deps) : deps[i] = <<"j", "u", "n", "i", "t", ".", "R", "u", "l", "e">>
          /\ \E i \in 1..Len(deps) : \E c \in 1..Len(Get(data, "classes", << >>)) :
                TargetId(deps[i], SourcePackage(data))
                    = ComponentId(SourcePackage(data), Get(data, "classes", << >>)[c])

\* C26: a dependency edge uses the ids the class nodes were registered under:
\* for every file, a file without package (classes in cluster "default")
\* included, every class C of the file and every dependency of the file that
\* starts with no excluded pattern and names another class node D of the view
\* (a name without dot is taken in the package of the file), the view has the
\* edge C -> D
C26_EdgesUseNodeIds ==
    component_diagram.built =>
        \A data \in ReadEntries :
        \A c \in 1..Len(Get(data, "classes", << >>)) :
        \A d \in 1..Len(Get(data, "dependencies", << >>)) :
            LET dep == Get(data, "dependencies", << >>)[d]
                source_id == ComponentId(PackageName(data), Get(data, "classes", << >>)[c])
                target_id == IF HasDot(dep) THEN dep ELSE ComponentId(PackageName(data), dep)
            IN  (/\ ~Excluded(dep)
                 /\ source_id \in ComponentNodeIds
                 /\ target_id \in ComponentNodeIds
                 /\ source_id # target_id)
                => \E i \in 1..Len(component_diagram.edges) :
                      /\ component_diagram.edges[i].source = source_id
                      /\ component_diagram.edges[i].target = target_id

\* the qualified names of the classes of the index that match no excluded
\* pattern
Retained(index) ==
    {FullClassName(ClassOccurrences(index)[i].package_name,
                   ClassOccurrences(index)[i].class_name)
     : i \in {k \in 1..Len(ClassOccurrences(index)) :
                /\ ClassOccurrences(index)[k].class_name # << >>
                /\ ~Excluded(FullClassName(ClassOccurrences(index)[k].package_name,
                                           ClassOccurrences(index)[k].class_name))}}

\* C22: every edge the class view draws, of each of the four kinds, has its
\* source and its target among the retained classes of the index; a
\* relationship whose target is not one of them is not drawn
C22_EdgeEndsRetained ==
    graph.built =>
        \A kind \in Kinds :
            /\ \A e \in graph.edges[kind] :
                  e[1] \in Retained(index_data) /\ e[2] \in Retained(index_data)
            /\ \A pair \in graph.relationships[kind] :
                  pair[2] \notin Retained(index_data) => pair \notin graph.edges[kind]

\* the loops drew an edge and met a relationship from a retained class to a
\* class that is excluded or not indexed
C22_Witness ==
    /\ graph.built
    /\ \E kind \in Kinds : graph.edges[kind] # {}
    /\ \E kind \in Kinds : \E pair \in graph.relationships[kind] :
          pair[1] \in Retained(index_data) /\ pair[2] \notin Retained(index_data)

\* the positions of ClassOccurrences(index) at which a retained qualified
\* name occurs for the first time
FirstOccurrences(index) ==
    LET occs == ClassOccurrences(index)
        name(i) == FullClassName(occs[i].package_name, occs[i].class_name)
    IN  {i \in 1..Len(occs) :
            /\ occs[i].class_name # << >>
            /\ ~Excluded(name(i))
            /\ \A j \in 1..(i - 1) : name(j) # name(i)}

\* C23: the class view has exactly one node for every retained qualified
\* name, however often files or one entry declare it; the nodes are created
\* from the first occurrences, in the order of the index, and the pass goes on
\* to the edges
C23_FirstWins ==
    (main_pc \in {"relationships", "legend"}) =>
        LET occs == ClassOccurrences(index_data)
            first == FirstOccurrences(index_data)
        IN  /\ Len(graph.nodes) = Cardinality(first)
            /\ \A i \in first :
                  LET k == Cardinality({j \in first : j <= i}) IN
                  /\ graph.nodes[k].id
                        = FullClassName(occs[i].package_name, occs[i].class_name)
                  /\ graph.nodes[k].label
                        = LabelParts(occs[i].class_name, << >>, << >>, FALSE, FALSE)
            /\ \A k, l \in 1..Len(graph.nodes) :
                  graph.nodes[k].id = graph.nodes[l].id => k = l
            /\ main_pc = "legend" => graph.built

\* the pass has run on an index in which two files declare app.Order and the
\* entry of one of them lists it twice; Customer.java was entered first
C23_Witness ==
    /\ main_pc = "legend"
    /\ graph.built
    /\ index_data.keys = <<"Customer.java", "A.java", "Order.java">>
    /\ Len(ClassOccurrences(index_data)) = 4
    /\ Len(graph.nodes) = 2
    /\ graph.nodes[2].id = <<"a", "p", "p", ".", "O", "r", "d", "e", "r">>

====
